---------------------------- MODULE Spec2Model ----------------------------
(***************************************************************************)
(* Connect4 with a Monte Carlo Tree Search opponent (connect4_game.py).    *)
(*                                                                         *)
(* GameState  : the 6x7 grid and the coordinates of the last piece.        *)
(* MCTSNode   : a node of the search tree (state, parent, children, moves, *)
(*              visits, score).                                            *)
(* AIPlayer   : find_best_move and its four phases.                        *)
(* GameBoard  : handle_click / calculate_ai_move, the game loop.           *)
(*                                                                         *)
(* Cell values are the code's: 0 empty, 1 the AI (Max), -1 the human (Min).*)
(* Rows are numbered as in the code: row 0 is the top, row 5 the bottom.   *)
(***************************************************************************)
EXTENDS Integers, Sequences, FiniteSets, TLC

VARIABLES
    game_state,      \* GameBoard.game_state / the GameState under test
    game_ended,      \* GameBoard.game_ended
    pending,         \* the handle_click calls that are inside their update() of line 629
    clicked,         \* the column under the last click delivered to handle_click
    start,           \* the GameState a place_piece test run started from
    target,          \* the column a place_piece test run places into
    log,             \* the place_piece calls of the run, in order: player and returned value
    pc,              \* where the click handler is: "idle", or inside find_best_move
    tree,            \* the MCTSNode objects of the running search; tree[1] is the root
    max_iterations,  \* find_best_move's iteration budget
    iteration,       \* iterations of find_best_move's loop completed
    current,         \* local "current" of _select_node / _backpropagate (a node, 0 = None)
    current_player,  \* local "current_player" of _select_node / _simulate_game / _backpropagate
    selected_node,   \* find_best_move's selected_node
    player_turn,     \* find_best_move's player_turn
    sim_state,       \* _simulate_game's sim_state
    result,          \* find_best_move's result (the rollout's winner)
    best_child       \* find_best_move's best_child, the node it returns (0 = None)

boardVars == <<game_state, game_ended, pending, clicked>>
testVars == <<start, target, log>>
searchVars == <<pc, tree, max_iterations, iteration, current, current_player,
                selected_node, player_turn, sim_state, result, best_child>>
vars == <<boardVars, testVars, searchVars>>

----------------------------------------------------------------------------
(* Program constants *)

NumRows == 6
NumCols == 7
\* previous_move = [None, None]: the coordinate "None" is modelled by -1, which is
\* no row and no column; the code tests it only with "row is None".
None == -1

DIRECTION_X == <<0, 1, 1, 1>>
DIRECTION_Y == <<1, 0, 1, -1>>

RowIdx == 0 .. (NumRows - 1)
ColIdx == 0 .. (NumCols - 1)
PlayerValues == {1, -1}

----------------------------------------------------------------------------
(* GameState *)

\* GameState.__init__ with grid=None
EmptyGrid == [r \in RowIdx |-> [c \in ColIdx |-> 0]]

NewGameState == [grid |-> EmptyGrid, previous_move |-> <<None, None>>]

\* Mutant of find_row: the scan skips the bottom row, as range(4, -1, -1) would
RECURSIVE find_row_skip_bottom(_, _, _)
find_row_skip_bottom(grid, column, row) ==
    IF row < 0 THEN -1
    ELSE IF row < NumRows - 1 /\ grid[row][column] = 0 THEN row
    ELSE find_row_skip_bottom(grid, column, row - 1)

\* Mutant of find_row: a full column yields the top row, not -1
RECURSIVE find_row_full_top(_, _, _)
find_row_full_top(grid, column, row) ==
    IF row < 0 THEN 0
    ELSE IF grid[row][column] = 0 THEN row
    ELSE find_row_full_top(grid, column, row - 1)

\* "for row in range(5, -1, -1): if grid[row][column] == 0: ..." : the first empty
\* row met going up from the bottom, -1 when the loop ends without finding one.
RECURSIVE find_row(_, _, _)
find_row(grid, column, row) ==
    IF row < 0 THEN -1
    ELSE IF grid[row][column] = 0 THEN row
    ELSE find_row(grid, column, row - 1)

\* Mutant of place_piece: the guard looks at row 1 instead of the top row 0
place_piece_guard_row1(self, column, player_value) ==
    IF column < 0 \/ column > 6 \/ self.grid[1][column] # 0
    THEN [state |-> self, ret |-> -1]
    ELSE LET row == find_row(self.grid, column, NumRows - 1)
         IN [state |-> [grid |-> [self.grid EXCEPT ![row][column] = player_value],
                        previous_move |-> <<row, column>>],
             ret |-> row]

\* Mutant of place_piece: the piece is written but the last move is not recorded
place_piece_no_last_move(self, column, player_value) ==
    IF column < 0 \/ column > 6 \/ self.grid[0][column] # 0
    THEN [state |-> self, ret |-> -1]
    ELSE LET row == find_row(self.grid, column, NumRows - 1)
         IN [state |-> [self EXCEPT !.grid[row][column] = player_value],
             ret |-> row]

\* GameState.place_piece: the state after the call and the value returned.
place_piece(self, column, player_value) ==
    IF column < 0 \/ column > 6 \/ self.grid[0][column] # 0
    THEN [state |-> self, ret |-> -1]
    ELSE LET row == find_row(self.grid, column, NumRows - 1)
         IN IF row = -1
            THEN [state |-> self, ret |-> -1]
            ELSE [state |-> [grid |-> [self.grid EXCEPT ![row][column] = player_value],
                             previous_move |-> <<row, column>>],
                  ret |-> row]

\* GameState.is_game_over: "top row is full" (top_row_full_from is the loop from
\* column col on)
RECURSIVE top_row_full_from(_, _)
top_row_full_from(grid, col) ==
    IF col >= NumCols THEN TRUE
    ELSE IF grid[0][col] = 0 THEN FALSE
    ELSE top_row_full_from(grid, col + 1)

\* Mutant of is_game_over: the loop starts at column 1, as range(1, 7) would
is_game_over_skip_col0(self) == top_row_full_from(self.grid, 1)

is_game_over(self) == top_row_full_from(self.grid, 0)

\* GameState.get_valid_moves: the list built by the loop over range(7)
\* (valid_moves_from is the loop from column col on, valid_moves the list so far)
RECURSIVE valid_moves_from(_, _, _)
valid_moves_from(grid, col, valid_moves) ==
    IF col >= NumCols THEN valid_moves
    ELSE IF grid[0][col] = 0
         THEN valid_moves_from(grid, col + 1, Append(valid_moves, col))
         ELSE valid_moves_from(grid, col + 1, valid_moves)

\* Mutant of get_valid_moves: the loop starts at column 1, as range(1, 7) would
get_valid_moves_skip_col0(self) == valid_moves_from(self.grid, 1, <<>>)

get_valid_moves(self) == valid_moves_from(self.grid, 0, <<>>)

\* Mutant of scan_offsets: the scan stops one offset early, "range(-3, 3)"
RECURSIVE scan_offsets_short(_, _, _, _, _, _, _)
scan_offsets_short(grid, row, col, direction, offset, ai_count, human_count) ==
    IF offset > 2 THEN 0
    ELSE LET check_row == row + offset * DIRECTION_X[direction + 1]
             check_col == col + offset * DIRECTION_Y[direction + 1]
         IN IF ~(0 <= check_row /\ check_row < 6 /\ 0 <= check_col /\ check_col < 7)
            THEN scan_offsets_short(grid, row, col, direction, offset + 1,
                                    ai_count, human_count)
            ELSE LET cell_value == grid[check_row][check_col]
                     ai == IF cell_value = 1 THEN ai_count + 1 ELSE 0
                     human == IF cell_value = -1 THEN human_count + 1 ELSE 0
                 IN IF human >= 4 THEN -1
                    ELSE IF ai >= 4 THEN 1
                    ELSE scan_offsets_short(grid, row, col, direction, offset + 1,
                                            ai, human)

\* Mutant of scan_offsets: four in a row is reported at three, "count >= 3"
RECURSIVE scan_offsets_three(_, _, _, _, _, _, _)
scan_offsets_three(grid, row, col, direction, offset, ai_count, human_count) ==
    IF offset > 3 THEN 0
    ELSE LET check_row == row + offset * DIRECTION_X[direction + 1]
             check_col == col + offset * DIRECTION_Y[direction + 1]
         IN IF ~(0 <= check_row /\ check_row < 6 /\ 0 <= check_col /\ check_col < 7)
            THEN scan_offsets_three(grid, row, col, direction, offset + 1,
                                    ai_count, human_count)
            ELSE LET cell_value == grid[check_row][check_col]
                     ai == IF cell_value = 1 THEN ai_count + 1 ELSE 0
                     human == IF cell_value = -1 THEN human_count + 1 ELSE 0
                 IN IF human >= 3 THEN -1
                    ELSE IF ai >= 3 THEN 1
                    ELSE scan_offsets_three(grid, row, col, direction, offset + 1,
                                            ai, human)

\* Mutant of scan_offsets: the counters are never reset, they count the pieces
\* of each player among the positions scanned
RECURSIVE scan_offsets_no_reset(_, _, _, _, _, _, _)
scan_offsets_no_reset(grid, row, col, direction, offset, ai_count, human_count) ==
    IF offset > 3 THEN 0
    ELSE LET check_row == row + offset * DIRECTION_X[direction + 1]
             check_col == col + offset * DIRECTION_Y[direction + 1]
         IN IF ~(0 <= check_row /\ check_row < 6 /\ 0 <= check_col /\ check_col < 7)
            THEN scan_offsets_no_reset(grid, row, col, direction, offset + 1,
                                       ai_count, human_count)
            ELSE LET cell_value == grid[check_row][check_col]
                     ai == IF cell_value = 1 THEN ai_count + 1 ELSE ai_count
                     human == IF cell_value = -1 THEN human_count + 1 ELSE human_count
                 IN IF human >= 4 THEN -1
                    ELSE IF ai >= 4 THEN 1
                    ELSE scan_offsets_no_reset(grid, row, col, direction, offset + 1,
                                               ai, human)

\* One direction of check_winner: the scan of offsets -3..3 with the two counters.
\* Returns the winner found in this direction, 0 when the scan ends without one.
RECURSIVE scan_offsets(_, _, _, _, _, _, _)
scan_offsets(grid, row, col, direction, offset, ai_count, human_count) ==
    IF offset > 3 THEN 0
    ELSE LET check_row == row + offset * DIRECTION_X[direction + 1]
             check_col == col + offset * DIRECTION_Y[direction + 1]
         IN IF ~(0 <= check_row /\ check_row < 6 /\ 0 <= check_col /\ check_col < 7)
            THEN \* "continue": the counters are kept
                 scan_offsets(grid, row, col, direction, offset + 1, ai_count, human_count)
            ELSE LET cell_value == grid[check_row][check_col]
                     ai == IF cell_value = 1 THEN ai_count + 1 ELSE 0
                     human == IF cell_value = -1 THEN human_count + 1 ELSE 0
                 IN IF human >= 4 THEN -1
                    ELSE IF ai >= 4 THEN 1
                    ELSE scan_offsets(grid, row, col, direction, offset + 1, ai, human)

\* Mutant of scan_counters: a position outside the board resets both counters,
\* as an empty cell does
RECURSIVE scan_counters_reset(_, _, _, _, _, _, _)
scan_counters_reset(grid, row, col, direction, offset, ai_count, human_count) ==
    IF offset > 3 THEN <<>>
    ELSE LET check_row == row + offset * DIRECTION_X[direction + 1]
             check_col == col + offset * DIRECTION_Y[direction + 1]
         IN IF ~(0 <= check_row /\ check_row < 6 /\ 0 <= check_col /\ check_col < 7)
            THEN <<[offset |-> offset, on_board |-> FALSE,
                    ai_count |-> 0, human_count |-> 0]>>
                 \o scan_counters_reset(grid, row, col, direction, offset + 1, 0, 0)
            ELSE LET cell_value == grid[check_row][check_col]
                     ai == IF cell_value = 1 THEN ai_count + 1 ELSE 0
                     human == IF cell_value = -1 THEN human_count + 1 ELSE 0
                 IN <<[offset |-> offset, on_board |-> TRUE,
                       ai_count |-> ai, human_count |-> human]>>
                    \o (IF human >= 4 \/ ai >= 4 THEN <<>>
                        ELSE scan_counters_reset(grid, row, col, direction,
                                                 offset + 1, ai, human))

\* The same loop as scan_offsets, seen from inside: the values of ai_count and
\* human_count at the end of each pass of "for offset in range(-3, 4)", in order,
\* up to the pass that returns
RECURSIVE scan_counters(_, _, _, _, _, _, _)
scan_counters(grid, row, col, direction, offset, ai_count, human_count) ==
    IF offset > 3 THEN <<>>
    ELSE LET check_row == row + offset * DIRECTION_X[direction + 1]
             check_col == col + offset * DIRECTION_Y[direction + 1]
         IN IF ~(0 <= check_row /\ check_row < 6 /\ 0 <= check_col /\ check_col < 7)
            THEN \* "continue": the counters are kept
                 <<[offset |-> offset, on_board |-> FALSE,
                    ai_count |-> ai_count, human_count |-> human_count]>>
                 \o scan_counters(grid, row, col, direction, offset + 1,
                                  ai_count, human_count)
            ELSE LET cell_value == grid[check_row][check_col]
                     ai == IF cell_value = 1 THEN ai_count + 1 ELSE 0
                     human == IF cell_value = -1 THEN human_count + 1 ELSE 0
                 IN <<[offset |-> offset, on_board |-> TRUE,
                       ai_count |-> ai, human_count |-> human]>>
                    \o (IF human >= 4 \/ ai >= 4 THEN <<>>
                        ELSE scan_counters(grid, row, col, direction,
                                           offset + 1, ai, human))

\* Mutant of scan_directions: the last direction is left out, "range(3)"
RECURSIVE scan_directions_three(_, _, _, _)
scan_directions_three(grid, row, col, direction) ==
    IF direction >= 3 THEN 0
    ELSE LET found == scan_offsets(grid, row, col, direction, -3, 0, 0)
         IN IF found # 0 THEN found
            ELSE scan_directions_three(grid, row, col, direction + 1)

\* check_winner's loop over the four directions, from direction on
RECURSIVE scan_directions(_, _, _, _)
scan_directions(grid, row, col, direction) ==
    IF direction >= 4 THEN 0
    ELSE LET found == scan_offsets(grid, row, col, direction, -3, 0, 0)
         IN IF found # 0 THEN found
            ELSE scan_directions(grid, row, col, direction + 1)

\* GameState.check_winner: 1 the AI, -1 the human, 0 no winner
check_winner(self) ==
    LET row == self.previous_move[1]
        col == self.previous_move[2]
    IN IF row = None THEN 0
       ELSE scan_directions(self.grid, row, col, 0)

----------------------------------------------------------------------------
(* Boards the runs start from: each is built by the code's own place_piece,  *)
(* so each is a board the program can hold.                                  *)

\* The state after placements[from + 1 .. to], applied in order to self
RECURSIVE replay(_, _, _, _)
replay(self, placements, from, to) ==
    IF to <= from THEN self
    ELSE place_piece(replay(self, placements, from, to - 1),
                     placements[to][1], placements[to][2]).state

\* A game as the list of columns played, the human (-1) moving first
alternate(columns) ==
    [i \in 1 .. Len(columns) |-> <<columns[i], IF i % 2 = 1 THEN -1 ELSE 1>>]

\* A complete game that ends in a draw: 42 plies, no four-in-a-row at any point.
DrawGame ==
    alternate(<<4, 1, 6, 2, 1, 0, 1, 4, 4, 2, 4, 1, 3, 6, 3, 3, 1, 0, 4, 6, 6,
                1, 2, 3, 2, 3, 2, 2, 6, 5, 5, 0, 5, 4, 6, 5, 5, 5, 0, 0, 3, 0>>)

\* Three of a kind in a line, the fourth cell free (placements by one player)
ThreeInRow == <<<<0, -1>>, <<1, -1>>, <<2, -1>>>>
\* A staircase under the rising diagonal (5,0) (4,1) (3,2) (2,3)
Staircase ==
    <<<<0, 1>>, <<1, -1>>, <<1, 1>>, <<2, -1>>, <<2, -1>>, <<2, 1>>,
      <<3, -1>>, <<3, -1>>, <<3, -1>>>>

\* The boards of the drawn game after 14 and after 28 plies (replay is evaluated
\* in three legs to keep its evaluation shallow)
DrawBoard14 == replay(NewGameState, DrawGame, 0, 14)
DrawBoard28 == replay(DrawBoard14, DrawGame, 14, 28)

DrawBoardAfter(k) ==
    IF k <= 14 THEN replay(NewGameState, DrawGame, 0, k)
    ELSE IF k <= 28 THEN replay(DrawBoard14, DrawGame, 14, k)
    ELSE replay(DrawBoard28, DrawGame, 28, k)

\* The plies of the drawn game after which a board is taken: every third one,
\* and the last three (one cell free, the board full)
BoardPlies == {k \in 0 .. Len(DrawGame) : k % 3 = 0 \/ k >= Len(DrawGame) - 2}

SeedBoards ==
    {DrawBoardAfter(k) : k \in BoardPlies}
        \cup {replay(NewGameState, ThreeInRow, 0, Len(ThreeInRow)),
              replay(NewGameState, Staircase, 0, Len(Staircase))}

----------------------------------------------------------------------------
(* MCTSNode.  The tree is the sequence of the nodes created so far; a node is *)
(* referred to by its index, the root is node 1 and "parent is None" is 0.    *)

NoNode == 0

\* Mutant of MCTSNode: visits start at 2
MCTSNode_visits_two(state, parent) ==
    [state |-> state, parent |-> parent, children |-> <<>>, moves |-> <<>>,
     visits |-> 2, score |-> 0]

\* MCTSNode.__init__
MCTSNode(state, parent) ==
    [state |-> state, parent |-> parent, children |-> <<>>, moves |-> <<>>,
     visits |-> 1, score |-> 0]

\* MCTSNode.add_child: the tree with the new child appended (its index is Len + 1)
add_child(nodes, node, state, move) ==
    Append([nodes EXCEPT ![node].children = Append(@, Len(nodes) + 1),
                         ![node].moves = Append(@, move)],
           MCTSNode(state, node))

\* Mutant of is_fully_expanded: a node counts as fully expanded one child early
is_fully_expanded_one_short(nodes, node) ==
    Len(nodes[node].children) >= Len(get_valid_moves(nodes[node].state)) - 1

\* MCTSNode.is_fully_expanded
is_fully_expanded(nodes, node) ==
    Len(nodes[node].children) = Len(get_valid_moves(nodes[node].state))

----------------------------------------------------------------------------
(* AIPlayer *)

\* exploration_weight=2.0, the default find_best_move is called with
ExplorationWeight == 2

\* math.sqrt(math.log(2.0 * N) / n) in millionths, row N (the parent's visits),
\* column n (the child's visits), for 1 <= N, n <= 12.  Scores are whole numbers
\* and visits are at most 12 in every run checked, and for those values comparing
\*   score/visits + weight * sqrt(log(2N)/n)
\* in millionths gives the same order and the same ties as the floating-point
\* comparison of the code.
SqrtLogTable ==
    <<
      <<832555, 588705, 480676, 416277, 372330, 339889, 314676, 294353, 277518, 263277, 251025, 240338>>,
      <<1177410, 832555, 679778, 588705, 526554, 480676, 445019, 416277, 392470, 372330, 355002, 339889>>,
      <<1338566, 946509, 772822, 669283, 598625, 546467, 505930, 473255, 446189, 423292, 403593, 386411>>,
      <<1442027, 1019667, 832555, 721013, 644894, 588705, 545035, 509833, 480676, 456009, 434787, 416277>>,
      <<1517427, 1072983, 876087, 758714, 678614, 619487, 573534, 536492, 505809, 479853, 457521, 438043>>,
      <<1576359, 1114654, 910111, 788179, 704969, 643546, 595808, 557327, 525453, 498488, 475290, 455056>>,
      <<1624518, 1148707, 937916, 812259, 726506, 663207, 614010, 574354, 541506, 513718, 489810, 468958>>,
      <<1665109, 1177410, 961351, 832555, 744659, 679778, 629352, 588705, 555036, 526554, 502049, 480676>>,
      <<1700109, 1202159, 981559, 850055, 760312, 694067, 642581, 601079, 566703, 537622, 512602, 490779>>,
      <<1730818, 1223873, 999288, 865409, 774046, 706604, 654188, 611937, 576939, 547333, 521861, 499644>>,
      <<1758136, 1243190, 1015060, 879068, 786262, 717756, 664513, 621595, 586045, 555971, 530098, 507530>>,
      <<1782710, 1260566, 1029248, 891355, 797252, 727788, 673801, 630283, 594237, 563742, 537507, 514624>>
    >>

\* ucb_score of child a compared with that of child b (both children of node):
\* both sides are multiplied by visits(a) * visits(b) * 10^6.
ucb_scaled(nodes, node, a, b, exploration_weight) ==
    nodes[a].score * nodes[b].visits * 1000000
        + exploration_weight * SqrtLogTable[nodes[node].visits][nodes[a].visits]
            * nodes[a].visits * nodes[b].visits

\* _select_best_child: the children random.choice picks from (best_children)
select_best_child(nodes, node, exploration_weight) ==
    {a \in {nodes[node].children[i] : i \in 1 .. Len(nodes[node].children)} :
        \A i \in 1 .. Len(nodes[node].children) :
            LET b == nodes[node].children[i]
            IN ucb_scaled(nodes, node, a, b, exploration_weight)
                  >= ucb_scaled(nodes, node, b, a, exploration_weight)}

\* Mutant of first_untried: the last move of possible_moves not tried yet
last_untried(possible_moves, tried_moves, i) ==
    LET untried == {j \in i .. Len(possible_moves) :
                       \A k \in 1 .. Len(tried_moves) : tried_moves[k] # possible_moves[j]}
    IN IF untried = {} THEN None
       ELSE possible_moves[CHOOSE j \in untried : \A k \in untried : k <= j]

\* "for move in possible_moves: if move not in tried_moves": the first such move
RECURSIVE first_untried(_, _, _)
first_untried(possible_moves, tried_moves, i) ==
    IF i > Len(possible_moves) THEN None
    ELSE IF \A j \in 1 .. Len(tried_moves) : tried_moves[j] # possible_moves[i]
         THEN possible_moves[i]
         ELSE first_untried(possible_moves, tried_moves, i + 1)

\* Mutant of drop_piece: the piece lands in the first empty row from the top
drop_piece_from_top(state, move, player_value) ==
    LET empty == {r \in RowIdx : state.grid[r][move] = 0}
        row == IF empty = {} THEN -1 ELSE CHOOSE r \in empty : \A q \in empty : r <= q
    IN IF row # -1
       THEN [grid |-> [state.grid EXCEPT ![row][move] = player_value],
             previous_move |-> <<row, move>>]
       ELSE state

\* The copy of state with a piece of player_value dropped into column move
\* (the body of _expand_node's "if move not in tried_moves", and the body of
\* simulate_random_move's "if valid_moves")
drop_piece(state, move, player_value) ==
    LET row == find_row(state.grid, move, NumRows - 1)
    IN IF row # -1
       THEN [grid |-> [state.grid EXCEPT ![row][move] = player_value],
             previous_move |-> <<row, move>>]
       ELSE state

\* Mutant of expand_node: the untried move is looked for among all seven columns
\* instead of get_valid_moves()
expand_node_any_column(nodes, node, turn) ==
    LET move == first_untried(<<0, 1, 2, 3, 4, 5, 6>>, nodes[node].moves, 1)
    IN add_child(nodes, node, drop_piece(nodes[node].state, move, turn), move)

\* Mutant of expand_node: the piece is put on node.state itself, not on a copy
\* ("new_state = node.state")
expand_node_in_place(nodes, node, turn) ==
    LET move == first_untried(get_valid_moves(nodes[node].state), nodes[node].moves, 1)
        new_state == drop_piece(nodes[node].state, move, turn)
    IN add_child([nodes EXCEPT ![node].state = new_state], node, new_state, move)

\* AIPlayer._expand_node: the tree with the new child (the node returned is the
\* last one).  It is called on nodes that are not fully expanded only.
expand_node(nodes, node, turn) ==
    LET move == first_untried(get_valid_moves(nodes[node].state), nodes[node].moves, 1)
    IN add_child(nodes, node, drop_piece(nodes[node].state, move, turn), move)

\* Mutant of in_play: the winner is not looked at
in_play_not_full(state) == ~is_game_over(state)

\* The loop condition of _select_node and of _simulate_game
in_play(state) == ~is_game_over(state) /\ check_winner(state) = 0

----------------------------------------------------------------------------
(* GameBoard: handle_click, with find_best_move running step by step inside   *)
(* calculate_ai_move.                                                         *)

\* The iteration budgets tried (AI_THINKING_LEVELS holds 400, 2500 and 5000)
MaxIterations == 5
Budgets == 1 .. MaxIterations

\* The game positions the runs start from: the human is to move, nobody has won.
SeedPlies == {34, 36, 38, 40}

\* No search is running
NoSearch ==
    /\ tree = <<>>
    /\ max_iterations = 0
    /\ iteration = 0
    /\ current = NoNode
    /\ current_player = 0
    /\ selected_node = NoNode
    /\ player_turn = 0
    /\ sim_state = NewGameState
    /\ result = 0
    /\ best_child = NoNode

\* No place_piece test run
TestIdle ==
    /\ start = NewGameState
    /\ target = None
    /\ log = <<>>

Init ==
    /\ game_state \in {DrawBoardAfter(k) : k \in SeedPlies}
    /\ game_ended = FALSE
    /\ pending = 0
    /\ clicked = None
    /\ pc = "idle"
    /\ TestIdle
    /\ NoSearch

\* "result == -1 ... elif result == 1 ... elif is_game_over()": game_ended is set
ends_game(state) ==
    check_winner(state) = -1 \/ check_winner(state) = 1 \/ is_game_over(state)

\* handle_click up to the call of find_best_move, for a click that arrives while
\* no handler is running and with no other click waiting when update() is called
\* (line 629).  col is the column the click's x coordinate is converted to,
\* min(6, max(0, ...)).  pending is 1 while the handler runs its AI part.
HandleClick(col) ==
    /\ pc = "idle"
    /\ pending = 0
    /\ clicked' = col
    /\ IF game_ended
       THEN UNCHANGED <<game_state, game_ended, pending, searchVars>>
       ELSE LET row == find_row(game_state.grid, col, NumRows - 1)
                placed == [grid |-> [game_state.grid EXCEPT ![row][col] = -1],
                           previous_move |-> <<row, col>>]
            IN IF row = -1
               THEN UNCHANGED <<game_state, game_ended, pending, searchVars>>
               ELSE /\ game_state' = placed
                    /\ game_ended' = ends_game(placed)
                    /\ IF ends_game(placed)
                       THEN UNCHANGED <<pending, searchVars>>
                       ELSE \E iterations \in Budgets :
                              /\ pending' = 1
                              /\ pc' = "loop"
                              /\ tree' = <<MCTSNode(placed, NoNode)>>
                              /\ max_iterations' = iterations
                              /\ UNCHANGED <<iteration, current, current_player,
                                             selected_node, player_turn, sim_state,
                                             result, best_child>>
    /\ UNCHANGED testVars

\* Mutant of LoopHead: the loop runs once more ("range(max_iterations + 1)")
LoopHeadOneMore ==
    /\ pc = "loop"
    /\ IF iteration <= max_iterations
       THEN /\ pc' = "select"
            /\ current' = 1
            /\ current_player' = 1
       ELSE /\ pc' = "best"
            /\ UNCHANGED <<current, current_player>>
    /\ UNCHANGED <<boardVars, testVars, tree, max_iterations, iteration,
                   selected_node, player_turn, sim_state, result, best_child>>

\* "for _ in range(max_iterations)": the next iteration starts with
\* _select_node(root, 1, ...), or the loop ends
LoopHead ==
    /\ pc = "loop"
    /\ IF iteration < max_iterations
       THEN /\ pc' = "select"
            /\ current' = 1
            /\ current_player' = 1
       ELSE /\ pc' = "best"
            /\ UNCHANGED <<current, current_player>>
    /\ UNCHANGED <<boardVars, testVars, tree, max_iterations, iteration,
                   selected_node, player_turn, sim_state, result, best_child>>

\* _select_node returns (node, turn); _simulate_game(node.state, turn) starts
StartSimulation(node, turn) ==
    /\ selected_node' = node
    /\ player_turn' = turn
    /\ sim_state' = tree'[node].state
    /\ current' = NoNode
    /\ current_player' = turn
    /\ pc' = "simulate"

\* Mutant of SelectStep: expansion takes any legal move not tried yet (as if
\* possible_moves were iterated in no fixed order)
SelectStepAnyUntried ==
    /\ pc = "select"
    /\ IF in_play(tree[current].state)
       THEN IF ~is_fully_expanded(tree, current)
            THEN /\ \E i \in 1 .. Len(get_valid_moves(tree[current].state)) :
                       LET move == get_valid_moves(tree[current].state)[i]
                       IN /\ \A j \in 1 .. Len(tree[current].moves) :
                                tree[current].moves[j] # move
                          /\ tree' = add_child(tree, current,
                                               drop_piece(tree[current].state, move,
                                                          current_player),
                                               move)
                 /\ StartSimulation(Len(tree) + 1, -current_player)
            ELSE /\ \E child \in select_best_child(tree, current, ExplorationWeight) :
                       current' = child
                 /\ current_player' = -current_player
                 /\ UNCHANGED <<pc, tree, selected_node, player_turn, sim_state>>
       ELSE /\ tree' = tree
            /\ StartSimulation(current, current_player)
    /\ UNCHANGED <<boardVars, testVars, max_iterations, iteration, result, best_child>>

\* Mutant of SelectStep: current_player is not negated when the descent moves to
\* the best child
SelectStepNoFlip ==
    /\ pc = "select"
    /\ IF in_play(tree[current].state)
       THEN IF ~is_fully_expanded(tree, current)
            THEN /\ tree' = expand_node(tree, current, current_player)
                 /\ StartSimulation(Len(tree) + 1, -current_player)
            ELSE /\ \E child \in select_best_child(tree, current, ExplorationWeight) :
                       current' = child
                 /\ UNCHANGED <<pc, tree, current_player, selected_node, player_turn,
                                sim_state>>
       ELSE /\ tree' = tree
            /\ StartSimulation(current, current_player)
    /\ UNCHANGED <<boardVars, testVars, max_iterations, iteration, result, best_child>>

\* One pass of _select_node's loop
SelectStep ==
    /\ pc = "select"
    /\ IF in_play(tree[current].state)
       THEN IF ~is_fully_expanded(tree, current)
            THEN /\ tree' = expand_node(tree, current, current_player)
                 /\ StartSimulation(Len(tree) + 1, -current_player)
            ELSE /\ \E child \in select_best_child(tree, current, ExplorationWeight) :
                       current' = child
                 /\ current_player' = -current_player
                 /\ UNCHANGED <<pc, tree, selected_node, player_turn, sim_state>>
       ELSE /\ tree' = tree
            /\ StartSimulation(current, current_player)
    /\ UNCHANGED <<boardVars, testVars, max_iterations, iteration, result, best_child>>

\* Mutant of SimulateStep: current_player is not negated after the move
SimulateStepSamePlayer ==
    /\ pc = "simulate"
    /\ in_play(sim_state)
    /\ \E selected_column \in
            {get_valid_moves(sim_state)[i] : i \in 1 .. Len(get_valid_moves(sim_state))} :
          sim_state' = drop_piece(sim_state, selected_column, current_player)
    /\ UNCHANGED <<boardVars, testVars, pc, tree, max_iterations, iteration, current,
                   current_player, selected_node, player_turn, result, best_child>>

\* One pass of _simulate_game's loop: simulate_random_move with random.choice
SimulateStep ==
    /\ pc = "simulate"
    /\ in_play(sim_state)
    /\ \E selected_column \in
            {get_valid_moves(sim_state)[i] : i \in 1 .. Len(get_valid_moves(sim_state))} :
          sim_state' = drop_piece(sim_state, selected_column, current_player)
    /\ current_player' = -current_player
    /\ UNCHANGED <<boardVars, testVars, pc, tree, max_iterations, iteration, current,
                   selected_node, player_turn, result, best_child>>

\* _simulate_game returns check_winner(); _backpropagate(selected_node, result,
\* player_turn) starts
SimulateEnd ==
    /\ pc = "simulate"
    /\ ~in_play(sim_state)
    /\ result' = check_winner(sim_state)
    /\ sim_state' = NewGameState
    /\ current' = selected_node
    /\ current_player' = player_turn
    /\ pc' = "backprop"
    /\ UNCHANGED <<boardVars, testVars, tree, max_iterations, iteration,
                   selected_node, player_turn, best_child>>

\* Mutant of BackpropStep: current_player is not negated on the way up
BackpropStepSameMarker ==
    /\ pc = "backprop"
    /\ IF current # NoNode
       THEN /\ tree' = [tree EXCEPT ![current].visits = @ + 1,
                                    ![current].score = @ - current_player * result]
            /\ current' = tree[current].parent
            /\ UNCHANGED <<pc, iteration, current_player, selected_node, player_turn,
                           result>>
       ELSE /\ iteration' = iteration + 1
            /\ pc' = "loop"
            /\ current_player' = 0
            /\ selected_node' = NoNode
            /\ player_turn' = 0
            /\ result' = 0
            /\ UNCHANGED <<tree, current>>
    /\ UNCHANGED <<boardVars, testVars, max_iterations, sim_state, best_child>>

\* Mutant of BackpropStep: the walk stops below the root ("while current.parent
\* is not None"), the root's statistics are not updated
BackpropStepBelowRoot ==
    /\ pc = "backprop"
    /\ IF current # NoNode /\ tree[current].parent # NoNode
       THEN /\ tree' = [tree EXCEPT ![current].visits = @ + 1,
                                    ![current].score = @ - current_player * result]
            /\ current' = tree[current].parent
            /\ current_player' = -current_player
            /\ UNCHANGED <<pc, iteration, selected_node, player_turn, result>>
       ELSE /\ iteration' = iteration + 1
            /\ pc' = "loop"
            /\ current' = NoNode
            /\ current_player' = 0
            /\ selected_node' = NoNode
            /\ player_turn' = 0
            /\ result' = 0
            /\ UNCHANGED tree
    /\ UNCHANGED <<boardVars, testVars, max_iterations, sim_state, best_child>>

\* Mutant of BackpropStep: "current.visits += 1" is left out
BackpropStepNoVisit ==
    /\ pc = "backprop"
    /\ IF current # NoNode
       THEN /\ tree' = [tree EXCEPT ![current].score = @ - current_player * result]
            /\ current' = tree[current].parent
            /\ current_player' = -current_player
            /\ UNCHANGED <<pc, iteration, selected_node, player_turn, result>>
       ELSE /\ iteration' = iteration + 1
            /\ pc' = "loop"
            /\ current_player' = 0
            /\ selected_node' = NoNode
            /\ player_turn' = 0
            /\ result' = 0
            /\ UNCHANGED <<tree, current>>
    /\ UNCHANGED <<boardVars, testVars, max_iterations, sim_state, best_child>>

\* One pass of _backpropagate's loop, or its end (and the end of the iteration)
BackpropStep ==
    /\ pc = "backprop"
    /\ IF current # NoNode
       THEN /\ tree' = [tree EXCEPT ![current].visits = @ + 1,
                                    ![current].score = @ - current_player * result]
            /\ current' = tree[current].parent
            /\ current_player' = -current_player
            /\ UNCHANGED <<pc, iteration, selected_node, player_turn, result>>
       ELSE /\ iteration' = iteration + 1
            /\ pc' = "loop"
            /\ current_player' = 0
            /\ selected_node' = NoNode
            /\ player_turn' = 0
            /\ result' = 0
            /\ UNCHANGED <<tree, current>>
    /\ UNCHANGED <<boardVars, testVars, max_iterations, sim_state, best_child>>

\* Mutant of ReturnBestChild: the most visited child of the root is returned
ReturnMostVisited ==
    /\ pc = "best"
    /\ best_child' \in
          {a \in {tree[1].children[i] : i \in 1 .. Len(tree[1].children)} :
              \A i \in 1 .. Len(tree[1].children) :
                  tree[a].visits >= tree[tree[1].children[i]].visits}
    /\ pc' = "return"
    /\ UNCHANGED <<boardVars, testVars, tree, max_iterations, iteration, current,
                   current_player, selected_node, player_turn, sim_state, result>>

\* The loop is over: find_best_move returns _select_best_child(root, 0)
ReturnBestChild ==
    /\ pc = "best"
    /\ best_child' \in select_best_child(tree, 1, 0)
    /\ pc' = "return"
    /\ UNCHANGED <<boardVars, testVars, tree, max_iterations, iteration, current,
                   current_player, selected_node, player_turn, sim_state, result>>

\* calculate_ai_move copies the state of the node returned into game_state;
\* handle_click checks for the end of the game and returns (the clicks its last
\* update(), line 661, finds waiting are handled as clicks that arrive after it).
AiMove ==
    /\ pc = "return"
    /\ game_state' = tree[best_child].state
    /\ game_ended' = ends_game(tree[best_child].state)
    /\ pc' = "idle"
    /\ tree' = <<>>
    /\ max_iterations' = 0
    /\ iteration' = 0
    /\ best_child' = NoNode
    /\ pending' = pending - 1
    /\ UNCHANGED <<testVars, clicked, current, current_player, selected_node,
                   player_turn, sim_state, result>>

\* The state of a find_best_move run: its locals and the tree
SearchState ==
    [pc |-> pc, tree |-> tree, max_iterations |-> max_iterations,
     iteration |-> iteration, current |-> current, current_player |-> current_player,
     selected_node |-> selected_node, player_turn |-> player_turn,
     sim_state |-> sim_state, result |-> result, best_child |-> best_child]

\* The value random.choice returns in the step the run is taking, None when the
\* step draws none: the child _select_best_child returns (lines 291, 234 and 212)
\* or the column simulate_random_move plays (line 97)
RandomChoice ==
    IF pc = "select" /\ in_play(tree[current].state) /\ is_fully_expanded(tree, current)
    THEN current'
    ELSE IF pc = "simulate" /\ in_play(sim_state)
    THEN sim_state'.previous_move[2]
    ELSE IF pc = "best"
    THEN best_child'
    ELSE None

\* find_best_move as a function: the state that follows state s of a run when
\* random.choice returns choice
find_best_move_step(s, choice) ==
    CASE s.pc = "loop" ->
            IF s.iteration < s.max_iterations
            THEN [s EXCEPT !.pc = "select", !.current = 1, !.current_player = 1]
            ELSE [s EXCEPT !.pc = "best"]
      [] s.pc = "select" ->
            IF in_play(s.tree[s.current].state)
            THEN IF ~is_fully_expanded(s.tree, s.current)
                 THEN LET nodes == expand_node(s.tree, s.current, s.current_player)
                      IN [s EXCEPT !.tree = nodes,
                                   !.selected_node = Len(nodes),
                                   !.player_turn = -s.current_player,
                                   !.sim_state = nodes[Len(nodes)].state,
                                   !.current = NoNode,
                                   !.current_player = -s.current_player,
                                   !.pc = "simulate"]
                 ELSE IF choice \in select_best_child(s.tree, s.current, ExplorationWeight)
                      THEN [s EXCEPT !.current = choice,
                                     !.current_player = -s.current_player]
                      ELSE [s EXCEPT !.pc = "no such choice"]
            ELSE [s EXCEPT !.selected_node = s.current,
                           !.player_turn = s.current_player,
                           !.sim_state = s.tree[s.current].state,
                           !.current = NoNode,
                           !.pc = "simulate"]
      [] s.pc = "simulate" ->
            IF in_play(s.sim_state)
            THEN IF \E i \in 1 .. Len(get_valid_moves(s.sim_state)) :
                        get_valid_moves(s.sim_state)[i] = choice
                 THEN [s EXCEPT !.sim_state = drop_piece(s.sim_state, choice,
                                                         s.current_player),
                                !.current_player = -s.current_player]
                 ELSE [s EXCEPT !.pc = "no such choice"]
            ELSE [s EXCEPT !.result = check_winner(s.sim_state),
                           !.sim_state = NewGameState,
                           !.current = s.selected_node,
                           !.current_player = s.player_turn,
                           !.pc = "backprop"]
      [] s.pc = "backprop" ->
            IF s.current # NoNode
            THEN [s EXCEPT !.tree[s.current].visits = @ + 1,
                           !.tree[s.current].score = @ - s.current_player * s.result,
                           !.current = s.tree[s.current].parent,
                           !.current_player = -s.current_player]
            ELSE [s EXCEPT !.iteration = s.iteration + 1,
                           !.pc = "loop",
                           !.current_player = 0,
                           !.selected_node = NoNode,
                           !.player_turn = 0,
                           !.result = 0]
      [] s.pc = "best" ->
            IF choice \in select_best_child(s.tree, 1, 0)
            THEN [s EXCEPT !.best_child = choice, !.pc = "return"]
            ELSE [s EXCEPT !.pc = "no such choice"]
      [] OTHER -> s

Next ==
    \/ \E col \in ColIdx : HandleClick(col)
    \/ LoopHead
    \/ SelectStep
    \/ SimulateStep
    \/ SimulateEnd
    \/ BackpropStep
    \/ ReturnBestChild
    \/ AiMove

Spec == Init /\ [][Next]_vars

----------------------------------------------------------------------------
(* SpecBoard: a caller of GameState.place_piece.  A run starts from a seed   *)
(* board, fixes a column (in or out of range) and calls place_piece on that  *)
(* column with either player, up to MaxCalls times.                          *)

MaxCalls == 7

CallColumns == -1 .. NumCols

InitBoard ==
    /\ game_state \in SeedBoards
    /\ start = game_state
    /\ target \in CallColumns
    /\ log = <<>>
    /\ game_ended = FALSE
    /\ pending = 0
    /\ clicked = None
    /\ pc = "test"
    /\ NoSearch

PlacePiece(player_value) ==
    /\ pc = "test"
    /\ Len(log) < MaxCalls
    /\ LET res == place_piece(game_state, target, player_value)
       IN /\ game_state' = res.state
          /\ log' = Append(log, [player_value |-> player_value, ret |-> res.ret])
    /\ UNCHANGED <<game_ended, pending, clicked, start, target, searchVars>>

NextBoard == \E player_value \in PlayerValues : PlacePiece(player_value)

SpecBoard == InitBoard /\ [][NextBoard]_vars

\* Both kinds of run: the game with its searches, and the callers of place_piece
InitAll == Init \/ InitBoard
NextAll == Next \/ NextBoard
SpecAll == InitAll /\ [][NextAll]_vars

----------------------------------------------------------------------------
(* SpecScan: a caller of GameState.check_winner on any grid and last move.   *)
(* check_winner reads the cells at offsets -3..3 from the last move along    *)
(* the four directions and nothing else; a run starts from a board that is   *)
(* empty except for one such line, filled in every possible way, or from a   *)
(* seed board, or from the new board, and calls check_winner once.           *)

CellValues == {-1, 0, 1}

\* The offsets of "range(-3, 4)" whose position is on the board
offsets_on_board(row, col, direction) ==
    {offset \in -3 .. 3 :
        LET check_row == row + offset * DIRECTION_X[direction + 1]
            check_col == col + offset * DIRECTION_Y[direction + 1]
        IN 0 <= check_row /\ check_row < 6 /\ 0 <= check_col /\ check_col < 7}

\* GameState(grid, previous_move): the grid holds line[offset] at each offset of the
\* direction from (row, col), 0 elsewhere; the last move is (row, col)
LineBoard(row, col, direction, line) ==
    [grid |->
        [r \in RowIdx |->
            [c \in ColIdx |->
                LET offset == IF DIRECTION_X[direction + 1] = 0
                              THEN (c - col) * DIRECTION_Y[direction + 1]
                              ELSE r - row
                IN IF /\ offset \in DOMAIN line
                      /\ r = row + offset * DIRECTION_X[direction + 1]
                      /\ c = col + offset * DIRECTION_Y[direction + 1]
                   THEN line[offset] ELSE 0]],
     previous_move |-> <<row, col>>]

InitScan ==
    /\ \/ \E row \in RowIdx, col \in ColIdx, direction \in 0 .. 3 :
             \E line \in [offsets_on_board(row, col, direction) -> CellValues] :
                game_state = LineBoard(row, col, direction, line)
       \/ game_state \in SeedBoards \cup {NewGameState}
    /\ start = game_state
    /\ target = None
    /\ log = <<>>
    /\ game_ended = FALSE
    /\ pending = 0
    /\ clicked = None
    /\ pc = "scan"
    /\ NoSearch

\* One call of check_winner: the value returned and, for each direction the
\* call scans, the counters after each pass of the inner loop
CheckWinner ==
    /\ pc = "scan"
    /\ log = <<>>
    /\ LET row == game_state.previous_move[1]
           col == game_state.previous_move[2]
       IN log' = <<[ret |-> check_winner(game_state),
                    scans |->
                       [direction \in 0 .. 3 |->
                           IF /\ row # None
                              /\ \A d \in 0 .. direction - 1 :
                                    scan_offsets(game_state.grid, row, col, d, -3, 0, 0) = 0
                           THEN scan_counters(game_state.grid, row, col, direction, -3, 0, 0)
                           ELSE <<>>]]>>
    /\ UNCHANGED <<boardVars, start, target, searchVars>>

NextScan == CheckWinner

SpecScan == InitScan /\ [][NextScan]_vars

\* ---- Clicks that update() dispatches while a handler is running ----
\* handle_click is bound to <Button-1> (line 525) and calls self.update() between
\* its human part and its AI part (line 629).  update() handles every event that
\* is waiting, clicks included, so it calls handle_click again before the handler
\* that called it has made its AI move.

\* The handle_click calls that may be inside update() at once
MaxPending == 3

\* Plies of DrawGame after which the clicks start
ClickPlies == {36, 38}

InitClicks ==
    /\ game_state \in {DrawBoardAfter(k) : k \in ClickPlies}
    /\ game_ended = FALSE
    /\ pending = 0
    /\ clicked = None
    /\ pc = "idle"
    /\ TestIdle
    /\ NoSearch

\* handle_click from its entry to its call of update() (lines 578-629), for a
\* click delivered by the main loop (pending = 0) or by the update() of a handler
\* that is running (pending > 0).
ClickQueued(col) ==
    /\ pc = "idle"
    /\ pending < MaxPending
    /\ clicked' = col
    /\ IF game_ended
       THEN UNCHANGED <<game_state, game_ended, pending>>
       ELSE LET row == find_row(game_state.grid, col, NumRows - 1)
                placed == [grid |-> [game_state.grid EXCEPT ![row][col] = -1],
                           previous_move |-> <<row, col>>]
            IN IF row = -1
               THEN UNCHANGED <<game_state, game_ended, pending>>
               ELSE /\ game_state' = placed
                    /\ game_ended' = ends_game(placed)
                    /\ pending' = pending + 1
    /\ UNCHANGED <<testVars, searchVars>>

\* update() of line 629 returns to the innermost handler, which goes on with its
\* AI part (lines 632-634): nothing if the game has ended, else
\* calculate_ai_move on the board as it is now.
UpdateReturns ==
    /\ pc = "idle"
    /\ pending > 0
    /\ IF game_ended
       THEN /\ pending' = pending - 1
            /\ UNCHANGED <<game_state, game_ended, clicked, searchVars>>
       ELSE \E iterations \in Budgets :
              /\ pc' = "loop"
              /\ tree' = <<MCTSNode(game_state, NoNode)>>
              /\ max_iterations' = iterations
              /\ UNCHANGED <<boardVars, iteration, current, current_player,
                             selected_node, player_turn, sim_state, result,
                             best_child>>
    /\ UNCHANGED testVars

NextClicks ==
    \/ \E col \in ColIdx : ClickQueued(col)
    \/ UpdateReturns
    \/ LoopHead
    \/ SelectStep
    \/ SimulateStep
    \/ SimulateEnd
    \/ BackpropStep
    \/ ReturnBestChild
    \/ AiMove

SpecClicks == InitClicks /\ [][NextClicks]_vars

----------------------------------------------------------------------------
(* Vocabulary of the properties: what the claims say, stated on the grid     *)
(* without the code's loops.                                                 *)

Occupied(grid, r, c) == grid[r][c] # 0

ColumnEmpty(grid, c) == \A r \in RowIdx : grid[r][c] = 0
ColumnFull(grid, c) == \A r \in RowIdx : grid[r][c] # 0
AllOccupied(grid) == \A c \in ColIdx : ColumnFull(grid, c)

\* The empty cell of column c with no empty cell below it (row 5 is the bottom)
LowestEmptyRow(grid, c) ==
    CHOOSE r \in RowIdx :
        grid[r][c] = 0 /\ \A below \in RowIdx : below > r => grid[below][c] # 0

\* No empty cell lies below an occupied cell
BottomUp(grid) ==
    \A c \in ColIdx : \A r \in RowIdx :
        grid[r][c] # 0 => \A below \in RowIdx : below > r => grid[below][c] # 0

\* The four axes: horizontal, vertical, the two diagonals, as (row step, column step)
Axes == {<<0, 1>>, <<1, 0>>, <<1, 1>>, <<1, -1>>}

OnBoard(r, c) == r \in RowIdx /\ c \in ColIdx

\* The windows of four consecutive cells that lie on the board, each as its
\* four cells in order
Windows ==
    {[i \in 1 .. 4 |-> <<w[1] + (i - 1) * w[3][1], w[2] + (i - 1) * w[3][2]>>] :
        w \in {v \in RowIdx \X ColIdx \X Axes :
                  OnBoard(v[1] + 3 * v[3][1], v[2] + 3 * v[3][2])}}

\* The players that own four consecutive cells somewhere on the grid
FourOwners(grid) ==
    {grid[w[1][1]][w[1][2]] :
        w \in {v \in Windows :
                  /\ grid[v[1][1]][v[1][2]] # 0
                  /\ \A i \in 2 .. 4 :
                        grid[v[i][1]][v[i][2]] = grid[v[1][1]][v[1][2]]}}

\* Four consecutive cells of player p starting at (r, c) along axis d
FourFrom(grid, r, c, d, p) ==
    \A i \in 0 .. 3 :
        /\ OnBoard(r + i * d[1], c + i * d[2])
        /\ grid[r + i * d[1]][c + i * d[2]] = p

\* The grid holds four consecutive cells of player p somewhere
HasFour(grid, p) == p \in FourOwners(grid)

\* Cell (r, c) lies in a run of four consecutive cells of player p
RunThrough(grid, r, c, p) ==
    \E d \in Axes, k \in 0 .. 3 : FourFrom(grid, r - k * d[1], c - k * d[2], d, p)

LastCall == log[Len(log)]

----------------------------------------------------------------------------
(* Claims on GameState (under SpecBoard)                                     *)

\* C1: place(column, player) returns -1 (InvalidMove) exactly when the column is
\* outside [0,6] or the top cell (row 0) of the column is occupied, and then the
\* grid and the last-move coordinate are unchanged.
C1_InvalidMoveExactly ==
    [][LET r == log'[Len(log')].ret
       IN /\ (r = -1) <=> (target < 0 \/ target > 6 \/ game_state.grid[0][target] # 0)
          /\ (r = -1) => (game_state' = game_state)]_vars

C1_Witness ==
    /\ log # <<>> /\ LastCall.ret = -1
    /\ target \in ColIdx /\ game_state.grid[0][target] # 0

\* C2: a successful place(column, player) changes exactly one cell, the lowest
\* empty row of the column, to player; every other cell is unchanged; the last-move
\* coordinate becomes (row, column); the row is the value returned.
C2_PlaceOneCell ==
    [][LET r == log'[Len(log')].ret
           p == log'[Len(log')].player_value
       IN (r # -1) =>
            /\ r = LowestEmptyRow(game_state.grid, target)
            /\ game_state'.grid[r][target] = p
            /\ \A rr \in RowIdx, cc \in ColIdx :
                  <<rr, cc>> # <<r, target>> =>
                      game_state'.grid[rr][cc] = game_state.grid[rr][cc]
            /\ game_state'.previous_move = <<r, target>>]_vars

C2_Witness ==
    /\ log # <<>> /\ LastCall.ret \in 0 .. 4
    /\ game_state.previous_move = <<LastCall.ret, target>>
    /\ game_state.grid[LastCall.ret][target] = LastCall.player_value

\* C4: from an empty column, six successive placements into it succeed and return
\* rows 5,4,3,2,1,0 in that order and fill the column; every later placement into
\* it returns -1.
C4_FillColumn ==
    (target \in ColIdx /\ ColumnEmpty(start.grid, target)) =>
        /\ \A i \in 1 .. Len(log) : log[i].ret = (IF i <= 6 THEN 6 - i ELSE -1)
        /\ Len(log) >= 6 => ColumnFull(game_state.grid, target)

C4_Witness ==
    /\ target \in ColIdx /\ ColumnEmpty(start.grid, target)
    /\ Len(log) = 7 /\ log[6].ret = 0 /\ log[7].ret = -1
    /\ ColumnFull(game_state.grid, target)

\* Every board the program holds: the game's, the rollout's, the tree nodes'
Boards == {game_state, sim_state} \cup {tree[n].state : n \in 1 .. Len(tree)}

PieceCount(grid) == Cardinality({<<r, c>> \in RowIdx \X ColIdx : grid[r][c] # 0})

\* C3: in every board, however its pieces were placed (place_piece, the click
\* handler, expansion, a rollout step), the occupied cells of every column form
\* a block from the bottom row up: no empty cell lies below an occupied one.
C3_BottomUp == \A b \in Boards : BottomUp(b.grid)

\* A rollout has made a move from an expanded node, after the human's click
C3_Witness ==
    /\ pc = "simulate" /\ Len(tree) >= 3
    /\ sim_state # tree[selected_node].state
    /\ PieceCount(sim_state.grid) >= PieceCount(game_state.grid) + 3
    /\ game_state.grid[game_state.previous_move[1]][game_state.previous_move[2]] = -1
    /\ \A b \in Boards : BottomUp(b.grid)

\* C5: in every board of a game (pieces placed one at a time by alternating
\* players from the empty board, none after a winner was reported), check_winner,
\* which looks only at the lines through the last move, agrees with a scan of the
\* whole board: it returns P iff the grid holds four consecutive P cells, and 0
\* iff the grid holds no four-in-a-row.
C5_WinnerAgreesWithBoardScan ==
    \A b \in Boards :
        LET owners == FourOwners(b.grid)
            winner == check_winner(b)
        IN /\ (winner = 1) <=> (1 \in owners)
           /\ (winner = -1) <=> (-1 \in owners)
           /\ (winner = 0) <=> (owners = {})

\* The human has just won the game with a click
C5_Witness ==
    /\ pc = "idle" /\ game_ended
    /\ check_winner(game_state) = -1 /\ HasFour(game_state.grid, -1)
    /\ ~HasFour(game_state.grid, 1)

\* C6: when the last-move cell is owned by player P, check_winner returns P if
\* the cell lies in a run of four consecutive P cells (horizontal, vertical or on
\* either diagonal), and 0 (None) if no such run through the cell exists.
C6_WinnerThroughLastMove ==
    \A b \in Boards :
        LET r == b.previous_move[1]
            c == b.previous_move[2]
        IN (r # None /\ b.grid[r][c] # 0) =>
              check_winner(b) =
                  (IF RunThrough(b.grid, r, c, b.grid[r][c]) THEN b.grid[r][c] ELSE 0)

\* The spec's vertical example: column 2 holds Max in rows 2..5, last move (2,2)
C6_Witness ==
    /\ log # <<>>
    /\ game_state.previous_move = <<2, 2>>
    /\ \A r \in RowIdx, c \in ColIdx :
          game_state.grid[r][c] = (IF c = 2 /\ r >= 2 THEN 1 ELSE 0)
    /\ check_winner(game_state) = 1

\* C7: on a full board with no four-in-a-row anywhere, is_game_over (isFull) is
\* true and check_winner returns 0 (None).
C7_Draw ==
    \A b \in Boards :
        (AllOccupied(b.grid) /\ ~HasFour(b.grid, 1) /\ ~HasFour(b.grid, -1)) =>
            (is_game_over(b) /\ check_winner(b) = 0)

\* A rollout has ended in a draw
C7_Witness ==
    /\ pc = "simulate"
    /\ sim_state # tree[selected_node].state
    /\ AllOccupied(sim_state.grid)
    /\ ~HasFour(sim_state.grid, 1) /\ ~HasFour(sim_state.grid, -1)
    /\ is_game_over(sim_state) /\ check_winner(sim_state) = 0

IsAscending(seq) == \A i \in 1 .. Len(seq) - 1 : seq[i] < seq[i + 1]
Range(seq) == {seq[i] : i \in 1 .. Len(seq)}

\* C8: get_valid_moves (legalMoves) is exactly the columns whose top cell (row 0)
\* is empty, each once, in ascending order; a column is in it iff place_piece on
\* it succeeds.
C8_LegalMoves ==
    \A b \in Boards :
        LET moves == get_valid_moves(b)
        IN /\ Range(moves) = {c \in ColIdx : b.grid[0][c] = 0}
           /\ IsAscending(moves)
           /\ \A c \in CallColumns, p \in PlayerValues :
                 (c \in Range(moves)) <=> (place_piece(b, c, p).ret # -1)

C8_Witness ==
    /\ log # <<>> /\ LastCall.ret = 0
    /\ Len(get_valid_moves(game_state)) \in 2 .. 5
    /\ game_state.grid[0][0] = 0 /\ game_state.grid[0][4] # 0

\* C9: is_game_over (isFull) is true iff every column's top cell is occupied, iff
\* get_valid_moves is empty; on a board with the bottom-up invariant, iff all 42
\* cells are occupied.
C9_IsFull ==
    \A b \in Boards :
        /\ is_game_over(b) <=> (\A c \in ColIdx : b.grid[0][c] # 0)
        /\ is_game_over(b) <=> (get_valid_moves(b) = <<>>)
        /\ BottomUp(b.grid) => (is_game_over(b) <=> AllOccupied(b.grid))

C9_Witness ==
    /\ log # <<>> /\ LastCall.ret = 0
    /\ BottomUp(game_state.grid) /\ AllOccupied(game_state.grid)
    /\ is_game_over(game_state)

\* The board after is the board before plus one piece of player p in the lowest
\* empty row of column col, with the last move set to that cell
PlacedAt(before, after, col, p) ==
    /\ \E r \in RowIdx : before.grid[r][col] = 0
    /\ LET row == LowestEmptyRow(before.grid, col)
       IN /\ after.grid = [before.grid EXCEPT ![row][col] = p]
          /\ after.previous_move = <<row, col>>

\* C10: the move find_best_move chooses (on a board with no winner and a legal
\* move, with a budget of at least 1) is one of get_valid_moves of the board, and
\* the board the game continues with is the input board plus exactly one Max piece
\* in the lowest empty row of that column, the last move set to that cell.
C10_AiMoveIsLegal ==
    [][(pc = "return" /\ pc' = "idle") =>
          \E i \in 1 .. Len(tree[1].children) :
              /\ game_state' = tree[tree[1].children[i]].state
              /\ tree[1].moves[i] \in Range(get_valid_moves(game_state))
              /\ PlacedAt(game_state, game_state', tree[1].moves[i], 1)]_vars

\* The AI has answered a click with a move and the game goes on
C10_Witness ==
    /\ pc = "idle" /\ ~game_ended
    /\ game_state.previous_move[1] # None
    /\ game_state.grid[game_state.previous_move[1]][game_state.previous_move[2]] = 1
    /\ game_state \notin {DrawBoardAfter(k) : k \in 0 .. Len(DrawGame)}

----------------------------------------------------------------------------
(* Claims on AIPlayer (under Spec)                                           *)

\* The children of a node, as a set
ChildrenOf(n) == {tree[n].children[i] : i \in 1 .. Len(tree[n].children)}

\* score(a) / visits(a) >= score(b) / visits(b), visits being positive
AverageAtLeast(a, b) == tree[a].score * tree[b].visits >= tree[b].score * tree[a].visits

\* C11: after the budget is exhausted the node find_best_move returns is a child
\* of the root whose average score (score / visits) is maximal among the root's
\* children: any child tied at the maximum may be returned, a child with a
\* smaller average never is (whatever the visit counts are).
C11_BestAverageReturned ==
    pc = "return" =>
        /\ iteration = max_iterations
        /\ best_child \in ChildrenOf(1)
        /\ \A d \in ChildrenOf(1) : AverageAtLeast(best_child, d)

\* The node returned has fewer visits than a sibling of smaller average, and
\* another run could have returned a sibling tied with it
C11_Witness ==
    /\ pc = "return"
    /\ \E d \in ChildrenOf(1) :
          tree[d].visits > tree[best_child].visits /\ ~AverageAtLeast(d, best_child)
    /\ \E d \in ChildrenOf(1) :
          d # best_child /\ AverageAtLeast(d, best_child)

\* C12: at every point of a find_best_move run every node of the tree has
\* visits >= 1, and after a full run of max_iterations iterations the visits of
\* the root equal max_iterations + 1.
C12_VisitsBookkeeping ==
    /\ \A n \in 1 .. Len(tree) : tree[n].visits >= 1
    /\ pc \in {"best", "return"} =>
          (iteration = max_iterations /\ tree[1].visits = max_iterations + 1)

\* A full run of at least three iterations is over
C12_Witness ==
    /\ pc = "best"
    /\ max_iterations >= 3
    /\ Len(tree) >= 3
    /\ tree[1].visits = max_iterations + 1

Min(a, b) == IF a <= b THEN a ELSE b

\* C13: the root board being non-terminal with n legal moves, each of the first
\* n iterations adds exactly one child to the root and no later iteration adds
\* one: after k iterations the root has min(k, n) children.
C13_RootExpansion ==
    tree # <<>> =>
        LET n == Cardinality({c \in ColIdx : tree[1].state.grid[0][c] = 0})
            k == Len(tree[1].children)
        IN /\ n >= 1
           /\ pc \in {"loop", "best", "return"} => k = Min(iteration, n)
           /\ pc = "select" => k = Min(iteration, n)
           /\ pc \in {"simulate", "backprop"} => k = Min(iteration + 1, n)

\* The root has two legal moves or more, all expanded, and one more iteration
\* has run since
C13_Witness ==
    /\ pc = "loop"
    /\ Len(tree[1].children) >= 2
    /\ Len(tree[1].children) = Len(get_valid_moves(tree[1].state))
    /\ iteration = Len(tree[1].children) + 1

\* C14: a find_best_move run is a function of the board, the budget and the
\* values random.choice returns: every step of a run leads to the one state
\* find_best_move_step gives for the current state and the value drawn in the
\* step.  Two runs on the same board with the same budget that draw the same
\* values therefore pass through the same states, build the same tree and
\* return the same node.
C14_Determinism ==
    [][(pc \in {"loop", "select", "simulate", "backprop", "best"}) =>
          (SearchState' = find_best_move_step(SearchState, RandomChoice)
              /\ game_state' = game_state)]_vars

\* A run of three iterations or more has returned one of several tied children,
\* after a descent through the tree and a rollout that drew values too
C14_Witness ==
    /\ pc = "return"
    /\ max_iterations >= 3
    /\ Cardinality(select_best_child(tree, 1, 0)) >= 2
    /\ \E n \in 1 .. Len(tree) : tree[n].parent > 1

\* C15: the search never changes a board in place.  While find_best_move runs
\* and when it has returned, the board it was called with (game_state, which is
\* the root's board) keeps its grid and its last move, and the board of a tree
\* node is the same after every step as when the node was created.
C15_BoardsNeverMutated ==
    [][(tree # <<>>) =>
          (tree[1].state = game_state
              /\ (tree' # <<>> =>
                    (game_state' = game_state
                        /\ Len(tree') >= Len(tree)
                        /\ \A n \in 1 .. Len(tree) : tree'[n].state = tree[n].state)))]_vars

\* find_best_move has returned after expansions two levels deep and their
\* rollouts; the board it was called with still ends with the human's piece
C15_Witness ==
    /\ pc = "return"
    /\ \E n \in 1 .. Len(tree) : tree[n].parent > 1
    /\ tree[1].state = game_state
    /\ game_state.grid[game_state.previous_move[1]][game_state.previous_move[2]] = -1
    /\ PieceCount(game_state.grid) + 1 = PieceCount(tree[best_child].state.grid)

\* The number of steps from node n up to the root
RECURSIVE Depth(_)
Depth(n) == IF tree[n].parent = NoNode THEN 0 ELSE 1 + Depth(tree[n].parent)

\* The turn marker at a node: Max (1) at the root, negated at every level down
TurnMarker(n) == IF Depth(n) % 2 = 0 THEN 1 ELSE -1

\* C16: expansion always takes the smallest legal column not yet among the
\* node's explored moves.  At all times the explored moves of a node are the
\* first len(children) legal columns of its board in ascending order (so without
\* duplicates), and the board of the i-th child is the node's board plus one piece
\* of the turn marker's player in the lowest empty row of the i-th move's column.
C16_ExpansionOrder ==
    \A n \in 1 .. Len(tree) :
        LET legal == {c \in ColIdx : tree[n].state.grid[0][c] = 0}
        IN /\ Len(tree[n].moves) = Len(tree[n].children)
           /\ \A i \in 1 .. Len(tree[n].moves) :
                 /\ tree[n].moves[i] \in legal
                 /\ Cardinality({c \in legal : c < tree[n].moves[i]}) = i - 1
                 /\ tree[tree[n].children[i]].parent = n
                 /\ PlacedAt(tree[n].state, tree[tree[n].children[i]].state,
                             tree[n].moves[i], TurnMarker(n))

\* The root and one of its children have two children each, and the child has
\* a legal move left
C16_Witness ==
    /\ Len(tree) >= 5
    /\ Len(tree[1].children) >= 2
    /\ \E n \in 2 .. Len(tree) :
          /\ tree[n].parent = 1
          /\ Len(tree[n].children) = 2
          /\ Len(get_valid_moves(tree[n].state)) > 2

\* The player whose piece was placed last on a board (who moved into it)
Mover(state) == state.grid[state.previous_move[1]][state.previous_move[2]]

\* Node a is node n or one of the nodes above it
RECURSIVE OnPathToRoot(_, _)
OnPathToRoot(a, n) ==
    IF n = NoNode THEN FALSE
    ELSE IF a = n THEN TRUE
    ELSE OnPathToRoot(a, tree[n].parent)

\* What a rollout won by player winner (0: a draw) is worth to the node reached
\* by a move of player mover
Outcome(mover, winner) == IF winner = 0 THEN 0 ELSE IF winner = mover THEN 1 ELSE -1

\* C17: backpropagation starts at the selected (or just expanded) node and walks
\* up to the root.  Each step updates the node it stands on and no other: visits
\* grow by 1 and the score by -marker * result, the marker being negated at
\* every step up, so that the score of a node grows by 1 when the player who
\* moved into it won the rollout, falls by 1 when that player lost and is
\* unchanged on a draw (also when the selected node is terminal already).  The
\* walk ends above the root only, with the tree as the last step left it.
C17_Backpropagation ==
    [][/\ (pc = "simulate" /\ pc' = "backprop") =>
              (current' = selected_node /\ tree' = tree)
       /\ (pc = "backprop" /\ current # NoNode) =>
              /\ OnPathToRoot(current, selected_node)
              /\ pc' = "backprop"
              /\ current' = tree[current].parent
              /\ current_player' = -current_player
              /\ tree'[current].visits = tree[current].visits + 1
              /\ tree'[current].score = tree[current].score - current_player * result
              /\ tree'[current].score =
                     tree[current].score + Outcome(Mover(tree[current].state), result)
              /\ tree' = [tree EXCEPT ![current].visits = tree'[current].visits,
                                      ![current].score = tree'[current].score]
       /\ (pc = "backprop" /\ current = NoNode) =>
              (tree' = tree /\ pc' = "loop")
      ]_vars

\* The walk from a node that was terminal already when it was selected has
\* passed the root; the player who moved into the node had won
C17_Witness ==
    /\ pc = "backprop" /\ current = NoNode
    /\ result # 0
    /\ result = Mover(tree[selected_node].state)
    /\ ~in_play(tree[selected_node].state)
    /\ tree[selected_node].visits >= 3
    /\ tree[selected_node].score = tree[selected_node].visits - 1

\* A board with a winner, or full
Terminal(state) == AllOccupied(state.grid) \/ FourOwners(state.grid) # {}

\* The number of iterations whose descent ended at a terminal node of the tree:
\* such a node has visits 2 after the iteration that created it, and one more
\* for each later descent that ended at it
RECURSIVE TerminalDescents(_)
TerminalDescents(n) ==
    IF n = 0 THEN 0
    ELSE TerminalDescents(n - 1)
            + (IF Terminal(tree[n].state) /\ tree[n].visits > 2
               THEN tree[n].visits - 2 ELSE 0)

\* C18: a node whose board has a winner or is full is never expanded: it has no
\* children at any point of a run; an iteration whose descent ends at such a
\* node adds no node to the tree and every other iteration adds exactly one, so
\* that the tree has at most iterations + 1 nodes.
C18_TerminalNeverExpanded ==
    /\ \A n \in 1 .. Len(tree) :
          Terminal(tree[n].state) => tree[n].children = <<>>
    /\ pc \in {"loop", "best", "return"} =>
          /\ Len(tree) = 1 + iteration - TerminalDescents(Len(tree))
          /\ Len(tree) <= iteration + 1
    /\ pc \in {"select", "simulate", "backprop"} => Len(tree) <= iteration + 2

\* A won board with legal moves left is a leaf of the tree, a descent has ended
\* at it, and the tree is smaller than iterations + 1
C18_Witness ==
    /\ pc = "loop"
    /\ Len(tree) < iteration + 1
    /\ \E n \in 2 .. Len(tree) :
          /\ check_winner(tree[n].state) # 0
          /\ get_valid_moves(tree[n].state) # <<>>
          /\ tree[n].children = <<>>
          /\ tree[n].visits >= 3

\* C19: the turn marker alternates with depth, starting from Max at the root.
\* In every tree node below the root the last-move cell holds a Max piece (1) at
\* odd depth and a Min piece (-1) at even depth, and the rollout started from a
\* node makes its first move with the opponent of the player who moved into
\* the node.
C19_TurnAlternatesWithDepth ==
    [][/\ \A n \in 2 .. Len(tree) :
             Mover(tree[n].state) = (IF Depth(n) % 2 = 1 THEN 1 ELSE -1)
       /\ (/\ pc = "simulate" /\ pc' = "simulate"
           /\ sim_state = tree[selected_node].state
           /\ sim_state' # sim_state) =>
              /\ selected_node # 1
              /\ Mover(sim_state') = -Mover(tree[selected_node].state)
              /\ Mover(sim_state') = (IF Depth(selected_node) % 2 = 1 THEN -1 ELSE 1)
      ]_vars

\* The rollout from a node at depth 2 (a Min move) has made its first move, a
\* Max piece
C19_Witness ==
    /\ pc = "simulate"
    /\ Depth(selected_node) = 2
    /\ Mover(tree[selected_node].state) = -1
    /\ PieceCount(sim_state.grid) = PieceCount(tree[selected_node].state.grid) + 1
    /\ Mover(sim_state) = 1

\* C20: a rollout applies legal moves with strictly alternating players, each
\* step adding exactly one piece (to a copy: see C15), and stops exactly at the
\* first board that has a winner or is full; it returns check_winner of that
\* board: 1 or -1 only if that player has four in a row there, 0 only if the
\* board is full without a winner.  From a terminal board it makes no move.
C20_Rollout ==
    [][(pc = "simulate") =>
          IF Terminal(sim_state)
          THEN /\ pc' = "backprop"
               /\ result' = check_winner(sim_state)
               /\ result' \in {-1, 0, 1}
               /\ result' # 0 => HasFour(sim_state.grid, result')
               /\ result' = 0 => (AllOccupied(sim_state.grid)
                                      /\ FourOwners(sim_state.grid) = {})
          ELSE /\ pc' = "simulate"
               /\ \E col \in ColIdx :
                     /\ sim_state.grid[0][col] = 0
                     /\ PlacedAt(sim_state, sim_state', col, current_player)
               /\ Mover(sim_state') = -Mover(sim_state)
               /\ current_player' = -current_player
               /\ tree' = tree
      ]_vars

\* A rollout has made two moves or more and stands on its final board, won
\* with columns still open
C20_Witness ==
    /\ pc = "simulate"
    /\ Terminal(sim_state)
    /\ PieceCount(sim_state.grid) >= PieceCount(tree[selected_node].state.grid) + 2
    /\ check_winner(sim_state) # 0
    /\ ~AllOccupied(sim_state.grid)

----------------------------------------------------------------------------
(* Claims on check_winner for any grid and last move (under SpecScan)        *)

\* The cell at an offset along a direction from (row, col), a position outside
\* the board counting as an empty cell
CellAt(grid, row, col, direction, offset) ==
    LET r == row + offset * DIRECTION_X[direction + 1]
        c == col + offset * DIRECTION_Y[direction + 1]
    IN IF OnBoard(r, c) THEN grid[r][c] ELSE 0

\* What a scan of offsets -3..3 returns when empty cells and positions outside
\* the board alike reset both counters: the owner of the first run of four
\* consecutive offsets it completes, 0 when there is none
ResettingScan(grid, row, col, direction) ==
    LET ends == {e \in 0 .. 3 :
                    /\ CellAt(grid, row, col, direction, e) # 0
                    /\ \A k \in e - 3 .. e :
                          CellAt(grid, row, col, direction, k)
                              = CellAt(grid, row, col, direction, e)}
    IN IF ends = {} THEN 0
       ELSE CellAt(grid, row, col, direction,
                   CHOOSE e \in ends : \A f \in ends : e <= f)

\* check_winner with such scans: the first direction, in order, that has a winner
ResettingWinner(state) ==
    LET row == state.previous_move[1]
        col == state.previous_move[2]
        found == {d \in 0 .. 3 : ResettingScan(state.grid, row, col, d) # 0}
    IN IF row = None \/ found = {} THEN 0
       ELSE ResettingScan(state.grid, row, col,
                          CHOOSE d \in found : \A e \in found : d <= e)

\* The passes of the scans of the call made, as <<direction, index>>
Passes ==
    {v \in (0 .. 3) \X (1 .. 7) : log # <<>> /\ v[2] <= Len(log[1].scans[v[1]])}

\* The counters before pass i of the scan of direction d
CountersBefore(d, i) ==
    IF i = 1 THEN <<0, 0>>
    ELSE <<log[1].scans[d][i - 1].ai_count, log[1].scans[d][i - 1].human_count>>

CountersAfter(d, i) == <<log[1].scans[d][i].ai_count, log[1].scans[d][i].human_count>>

\* C22 (as the code has it): in check_winner's scan of offsets -3..3 a position
\* outside the board is skipped, both counters keep the values they had (it
\* does not reset them as an empty cell does); the value check_winner returns
\* is nevertheless that of a scan that resets on such positions, for every
\* grid and last move.
C22_OffBoardKeepsCounters ==
    /\ check_winner(game_state) = ResettingWinner(game_state)
    /\ log # <<>> =>
          /\ log[1].ret = ResettingWinner(game_state)
          /\ \A v \in Passes :
                IF log[1].scans[v[1]][v[2]].on_board
                THEN LET cell == CellAt(game_state.grid, game_state.previous_move[1],
                                        game_state.previous_move[2], v[1],
                                        log[1].scans[v[1]][v[2]].offset)
                     IN CountersAfter(v[1], v[2]) =
                           <<IF cell = 1 THEN CountersBefore(v[1], v[2])[1] + 1 ELSE 0,
                             IF cell = -1 THEN CountersBefore(v[1], v[2])[2] + 1 ELSE 0>>
                ELSE CountersAfter(v[1], v[2]) = CountersBefore(v[1], v[2])

\* C22 (as the spec has it): a position outside the board resets both counters
\* to 0, and the value returned is that of a scan that resets on such positions.
C22_OffBoardResetsCounters ==
    /\ check_winner(game_state) = ResettingWinner(game_state)
    /\ log # <<>> =>
          /\ log[1].ret = ResettingWinner(game_state)
          /\ \A v \in Passes :
                ~log[1].scans[v[1]][v[2]].on_board =>
                    CountersAfter(v[1], v[2]) = <<0, 0>>

\* Three AI pieces end at the edge of the board: the scan leaves the board with
\* ai_count = 3, keeps it over the positions outside, and returns no winner
C22_Witness ==
    /\ log # <<>>
    /\ log[1].ret = 0
    /\ \E v \in Passes :
          /\ ~log[1].scans[v[1]][v[2]].on_board
          /\ log[1].scans[v[1]][v[2]].offset = 3
          /\ CountersAfter(v[1], v[2]) = <<3, 0>>

\* C23: check_winner can only report the owner of the last-move cell.  For any
\* grid and last move a result other than 0 (None) is the value stored in the
\* last-move cell, and before any move (no last move) the result is 0.
C23_WinnerOwnsLastMove ==
    LET row == game_state.previous_move[1]
        col == game_state.previous_move[2]
        winner == check_winner(game_state)
    IN /\ log # <<>> => log[1].ret = winner
       /\ row = None => winner = 0
       /\ winner # 0 => (row # None /\ winner = game_state.grid[row][col])

\* check_winner has reported the AI, owner of the last-move cell, on a line
\* where the human has three cells
C23_Witness ==
    /\ log # <<>>
    /\ log[1].ret = 1
    /\ game_state.grid[game_state.previous_move[1]][game_state.previous_move[2]] = 1
    /\ PieceCount(game_state.grid) = 7
    /\ Cardinality({v \in RowIdx \X ColIdx : game_state.grid[v[1]][v[2]] = -1}) = 3

----------------------------------------------------------------------------
(* Further claims on AIPlayer and GameBoard (under Spec)                     *)

\* The sum of (visits - 1) over the first i children of node n
RECURSIVE ChildPasses(_, _)
ChildPasses(n, i) ==
    IF i = 0 THEN 0
    ELSE ChildPasses(n, i - 1) + tree[tree[n].children[i]].visits - 1

\* C24 (as the code has it): at the end of every iteration the root satisfies
\* visits - 1 = sum over its children of (child.visits - 1), and every other
\* node whose board is non-terminal satisfies visits - 2 = that sum: of the
\* iterations that pass through such a node, the one that created it ends at
\* it (its rollout starts there) and each later one passes through exactly one
\* of its children.  Every child has visits <= its parent's visits.
C24_VisitConservation ==
    pc \in {"loop", "best", "return"} =>
        \A n \in 1 .. Len(tree) :
            /\ ~Terminal(tree[n].state) =>
                  tree[n].visits - (IF n = 1 THEN 1 ELSE 2)
                      = ChildPasses(n, Len(tree[n].children))
            /\ \A c \in ChildrenOf(n) : tree[c].visits <= tree[n].visits

\* C24 (as stated): at the end of every iteration every node whose board is
\* non-terminal satisfies visits - 1 = sum over its children of
\* (child.visits - 1), and every child has visits <= its parent's visits.
C24_VisitConservationAllNodes ==
    pc \in {"loop", "best", "return"} =>
        \A n \in 1 .. Len(tree) :
            /\ ~Terminal(tree[n].state) =>
                  tree[n].visits - 1 = ChildPasses(n, Len(tree[n].children))
            /\ \A c \in ChildrenOf(n) : tree[c].visits <= tree[n].visits

\* An iteration has ended; a node below the root has a non-terminal board and
\* children, and the root has two children or more
C24_Witness ==
    /\ pc = "loop"
    /\ Len(tree[1].children) >= 2
    /\ \E n \in 2 .. Len(tree) :
          /\ ~Terminal(tree[n].state)
          /\ tree[n].children # <<>>
          /\ tree[n].visits = 2 + ChildPasses(n, Len(tree[n].children))

\* ---- C25 ----

\* A click on the column just clicked was turned away: the column is full, its
\* top piece is the AI's and the last piece placed lies in another column, so no
\* accepted click put a piece there.
RejectedClick ==
    /\ clicked \in ColIdx
    /\ ColumnFull(game_state.grid, clicked)
    /\ game_state.grid[0][clicked] = 1
    /\ game_state.previous_move[2] # clicked

\* C25: a click on a full column while the game has not ended leaves the board
\* and the game-ended flag unchanged, starts no AI search and no AI move, and
\* leaves the handler idle with no handler waiting for its AI part, so the next
\* click is again the human's move.
C25_FullColumnClickIgnored ==
    [][(/\ pc = "idle"
        /\ ~game_ended
        /\ clicked' \in ColIdx
        /\ ColumnFull(game_state.grid, clicked'))
       => (/\ game_state' = game_state
           /\ game_ended' = game_ended
           /\ pending' = pending
           /\ pc' = "idle"
           /\ searchVars' = searchVars)]_vars

C25_Witness ==
    /\ pc = "idle"
    /\ ~game_ended
    /\ pending = 0
    /\ RejectedClick

\* ---- C26 ----

\* The pieces of one player on a grid
PiecesOf(grid, player) ==
    Cardinality({<<r, c>> \in RowIdx \X ColIdx : grid[r][c] = player})

\* Every click handler that was started has returned
NoHandlerRunning == pc = "idle" /\ pending = 0

\* C26 (as stated): whenever every click handler has completed, the human's
\* pieces minus the AI's pieces are 0 or 1, and game_ended is true exactly if
\* the board has four in a row or is full; the AI places a piece only when the
\* last piece placed is the human's and the board it moves on has not ended the
\* game; and once game_ended is true no click changes the board.
C26_TurnOrder ==
    /\ [](NoHandlerRunning
          => /\ PiecesOf(game_state.grid, -1) - PiecesOf(game_state.grid, 1) \in {0, 1}
             /\ game_ended <=> Terminal(game_state))
    /\ [][/\ (pc = "return" /\ pc' = "idle")
             => /\ Mover(game_state) = -1
                /\ ~game_ended
                /\ ~Terminal(game_state)
                /\ PiecesOf(game_state'.grid, 1) = PiecesOf(game_state.grid, 1) + 1
          /\ game_ended => game_state' = game_state]_vars

\* ---- C27 ----

\* C27: at every point of a find_best_move run every node of the tree has an
\* integer score with |score| <= visits - 1, and visits >= 1, so the average
\* score / visits of every node lies strictly between -1 and +1.
C27_ScoreBound ==
    \A n \in DOMAIN tree :
        /\ tree[n].score \in Int
        /\ tree[n].visits >= 1
        /\ -(tree[n].visits - 1) <= tree[n].score
        /\ tree[n].score <= tree[n].visits - 1
        /\ -tree[n].visits < tree[n].score
        /\ tree[n].score < tree[n].visits

\* The bound is met from both sides when the search returns: one node has won
\* every rollout through it, another has lost every one
C27_Witness ==
    /\ pc = "return"
    /\ \E n \in DOMAIN tree :
          tree[n].visits >= 3 /\ tree[n].score = tree[n].visits - 1
    /\ \E n \in DOMAIN tree :
          tree[n].visits >= 3 /\ tree[n].score = -(tree[n].visits - 1)

\* ---- C21 ----

\* The empty cells of a board
Free(state) == NumRows * NumCols - PieceCount(state.grid)

\* More than the steps any one phase of an iteration can take: a descent, a
\* rollout and a walk to the root are each bounded by the 42 cells
PhaseWeight == NumRows * NumCols + 2

\* A measure of the work find_best_move has left: the iterations to come, then
\* the phase of the current iteration, then the steps left in the phase (the
\* empty cells under the descent or the rollout, the nodes up to the root)
Rank ==
    CASE pc = "loop"     -> 5 * PhaseWeight * (max_iterations - iteration) + 4 * PhaseWeight
      [] pc = "select"   -> 5 * PhaseWeight * (max_iterations - iteration)
                               + 3 * PhaseWeight + Free(tree[current].state)
      [] pc = "simulate" -> 5 * PhaseWeight * (max_iterations - iteration)
                               + 2 * PhaseWeight + Free(sim_state)
      [] pc = "backprop" -> 5 * PhaseWeight * (max_iterations - iteration)
                               + PhaseWeight
                               + (IF current = NoNode THEN 0 ELSE Depth(current) + 1)
      [] pc = "best"     -> 1
      [] OTHER           -> 0

Searching == pc \in {"loop", "select", "simulate", "backprop", "best"}

\* C21: find_best_move runs to completion whatever the random choices.  A
\* search that has not returned can always take a step, and every step lowers
\* Rank, which is never negative, so the search returns after finitely many
\* steps.  It returns after exactly max_iterations iterations: the iteration
\* count grows by one at the end of each backpropagation, never exceeds
\* max_iterations and equals it, as does root.visits - 1, when the best child is
\* chosen.  Every step of a descent goes to a board with fewer empty cells;
\* every rollout move fills one empty cell and the rollout stops on a full
\* board, so a rollout makes at most 42 - pieces(starting board) moves.
C21_RunsToCompletion ==
    /\ [](Searching => ENABLED Next)
    /\ [](/\ iteration <= max_iterations
          /\ (pc \in {"best", "return"})
                => (iteration = max_iterations /\ tree[1].visits = max_iterations + 1)
          /\ (pc = "simulate")
                => (PieceCount(sim_state.grid) - PieceCount(tree[selected_node].state.grid)
                      <= Free(tree[selected_node].state)))
    /\ [][/\ Searching => (Rank' < Rank /\ Rank' >= 0)
          /\ (pc = "loop" /\ pc' = "best") => iteration = max_iterations
          /\ (pc = "backprop" /\ pc' = "loop") => iteration' = iteration + 1
          /\ (pc = "select" /\ pc' = "select")
                => Free(tree[current'].state) < Free(tree[current].state)
          /\ (pc = "simulate" /\ pc' = "simulate")
                => PieceCount(sim_state'.grid) = PieceCount(sim_state.grid) + 1
          /\ (pc = "simulate" /\ AllOccupied(sim_state.grid)) => pc' = "backprop"]_vars

\* The last iteration of a search, after a descent through a child of the root:
\* the rollout has filled the board, with as many moves (two or more) as its
\* starting board had empty cells
C21_Witness ==
    /\ pc = "simulate"
    /\ iteration = max_iterations - 1
    /\ iteration >= 2
    /\ Depth(selected_node) >= 2
    /\ AllOccupied(sim_state.grid)
    /\ FourOwners(sim_state.grid) = {}
    /\ Free(tree[selected_node].state) >= 2

=============================================================================
